---- MODULE Spec2Model ----
(***************************************************************************)
(* Model of ExportRSD.execute (io_export_rsd.py): the export of one mesh   *)
(* to the three companion files PLY (geometry), MAT (shading) and RSD      *)
(* (descriptor).                                                           *)
(*                                                                         *)
(* A file is a sequence of lines.  A line is a record                      *)
(*     [txt |-> the literal words of the line, num |-> its numbers]        *)
(* so words and numbers are never compared with each other.  A character   *)
(* string that the code takes apart (a file path) is a sequence of         *)
(* one-character strings.  Coordinates and normals are small integers,     *)
(* which "%E" prints exactly; a colour channel is given in thousandths     *)
(* (1000 = 1.0).                                                           *)
(***************************************************************************)
EXTENDS Integers, Sequences, FiniteSets, TLC

\* ------------------------------------------------------------------ bounds
MaxVerts == 4
MaxFaces == 2

\* ----------------------------------------------------------------- helpers
Range(s) == {s[k] : k \in 1..Len(s)}

Line(txt, num) == [txt |-> txt, num |-> num]

Roles == {"ply", "mat", "rsd"}

\* ------------------------------------------------------------- file paths
filename_ext == <<".", "r", "s", "d">>
ply_ext == <<".", "p", "l", "y">>
mat_ext == <<".", "m", "a", "t">>

lower(s) ==
    [k \in 1..Len(s) |->
        CASE s[k] = "R" -> "r"
          [] s[k] = "S" -> "s"
          [] s[k] = "D" -> "d"
          [] OTHER -> s[k]]

\* str.rstrip(chars): drops every trailing character that occurs in chars.
\* (mutation: the extension is not stripped before the three paths are built)
rstrip_kept(s, chars) == s

RECURSIVE rstrip(_, _)
rstrip(s, chars) ==
    IF Len(s) > 0 /\ s[Len(s)] \in Range(chars)
    THEN rstrip(SubSeq(s, 1, Len(s) - 1), chars)
    ELSE s

\* bpy.path.ensure_ext(filepath, ext): appends ext unless the path already
\* ends with it (compared case-insensitively).
ensure_ext(path, ext) ==
    IF Len(path) >= Len(ext)
       /\ lower(SubSeq(path, Len(path) - Len(ext) + 1, Len(path))) = lower(ext)
    THEN path
    ELSE path \o ext

\* bpy.path.basename(path): what follows the last "/".
RECURSIVE basename(_)
basename(path) ==
    IF \E k \in 1..Len(path) : path[k] = "/"
    THEN basename(Tail(path))
    ELSE path

stripped(path) == rstrip(path, filename_ext)
rsd_filepath(path) == ensure_ext(stripped(path), filename_ext)
ply_filepath(path) == ensure_ext(stripped(path), ply_ext)
mat_filepath(path) == ensure_ext(stripped(path), mat_ext)

\* ------------------------------------------------------------------- mesh
\* Vertex i (0-based) of the sample geometry: position and smooth normal.
Vertex(i) == [co |-> <<i + 1, 2 * i - 3, 5 - i>>, normal |-> <<i, -1 - i, 10 + i>>]

\* Flat normal of the face at position i (0-based).
FaceNormal(i) == <<-20 - i, i + 30, 2 * i - 41>>

\* Per-loop colours, in thousandths of the channel range.
Palette ==
    << <<1000, 0, 0>>, <<0, 1000, 0>>, <<4, 250, 999>>, <<500, 500, 500>>,
       <<0, 0, 1000>> >>

ColorPatterns == {"uniform", "last", "distinct"}

LoopColors(n, pat) ==
    [k \in 1..n |->
        CASE pat = "uniform" -> Palette[1]
          [] pat = "last" -> IF k = n THEN Palette[2] ELSE Palette[1]
          [] OTHER -> Palette[((k - 1) % Len(Palette)) + 1]]

\* Vertex counts a loop_triangles entry is given in the model: 3 and 4 are
\* the ones the exporter writes, 2 and 5 are the ones it does not.
Arities == {2, 3, 4, 5}

\* The face at position i (0-based) of a mesh of nv vertices: n vertex
\* indices in winding order, all valid, starting at vertex i.
Face(i, nv, n, smooth, pat, hasCols) ==
    [vertices |-> [k \in 1..n |-> (i + k - 1) % nv],
     use_smooth |-> smooth,
     normal |-> FaceNormal(i),
     colors |-> IF hasCols THEN LoopColors(n, pat) ELSE <<>>]

FaceChoices == [n : Arities, smooth : BOOLEAN]

VertCounts == {MaxVerts}

\* A mesh without a colour layer, or with a layer painted after one pattern.
Meshes ==
    { [vertices |-> [k \in 1..nv |-> Vertex(k - 1)],
       loop_triangles |->
           [k \in 1..nf |-> Face(k - 1, nv, ch[k].n, ch[k].smooth, pat, hasCols)],
       vertex_colors |-> hasCols] :
        nv \in VertCounts, nf \in 0..MaxFaces, hasCols \in BOOLEAN,
        pat \in ColorPatterns, ch \in [1..MaxFaces -> FaceChoices] }

\* ------------------------------------------------------ Geometry (PLY)
\* (x, y, z) -> (x, -z, y), scaled.
AxisRemap(v, scale) == <<v[1] * scale, (-v[3]) * scale, v[2] * scale>>

\* (mutation: the indices are written in the mesh's own winding)
VertexIndexGroup_unwound(p) ==
    LET v == p.vertices IN
    IF Len(v) = 3 THEN <<0, v[1], v[2], v[3], 0>>
    ELSE IF Len(v) = 4 THEN <<1, v[1], v[2], v[3], v[4]>>
    ELSE <<>>

\* "0 a c b 0 " / "1 d c a b " / nothing
VertexIndexGroup(p) ==
    LET v == p.vertices IN
    IF Len(v) = 3 THEN <<0, v[1], v[3], v[2], 0>>
    ELSE IF Len(v) = 4 THEN <<1, v[4], v[3], v[1], v[2]>>
    ELSE <<>>

\* (mutation: the flat normals are taken to start one entry too far)
flatnorms_start_offByOne(m) == Len(m.vertices) + 1

flatnorms_start(m) == Len(m.vertices)

\* (mutation: the position of the face is not added)
FlatNormalIndex_noPos(m, i) == flatnorms_start(m)

FlatNormalIndex(m, i) == flatnorms_start(m) + i

NormalIndexGroup(m, i, p) ==
    LET v == p.vertices IN
    IF p.use_smooth
    THEN IF Len(v) = 3 THEN <<v[1], v[3], v[2], 0>>
         ELSE IF Len(v) = 4 THEN <<v[4], v[3], v[1], v[2]>>
         ELSE <<>>
    ELSE LET n == FlatNormalIndex(m, i) IN
         IF Len(v) = 3 THEN <<n, n, n, 0>>
         ELSE IF Len(v) = 4 THEN <<n, n, n, n>>
         ELSE <<>>

\* One line of the "# Polygon" block; the closing "\n" is written for every
\* entry of loop_triangles.
PolygonLine(m, i, p) == Line(<<>>, VertexIndexGroup(p) \o NormalIndexGroup(m, i, p))

NonEmpty(line) == line.num # <<>>

\* (mutation: an entry that is neither a triangle nor a quad gets no line)
PolygonBlock_skipping(m) ==
    SelectSeq([k \in 1..Len(m.loop_triangles) |->
                  PolygonLine(m, k - 1, m.loop_triangles[k])], NonEmpty)

PolygonBlock(m) ==
    [k \in 1..Len(m.loop_triangles) |-> PolygonLine(m, k - 1, m.loop_triangles[k])]

\* (mutation: the middle figure counts the smooth normals only)
PLYCounts_smoothOnly(m) ==
    <<Len(m.vertices), Len(m.vertices), Len(m.loop_triangles)>>

PLYCounts(m) ==
    <<Len(m.vertices), Len(m.vertices) + Len(m.loop_triangles), Len(m.loop_triangles)>>

PLYLines(m, scale) ==
    << Line(<<"@PLY940102">>, <<>>),
       Line(<<>>, PLYCounts(m)),
       Line(<<"# Vertices">>, <<>>) >>
    \o [k \in 1..Len(m.vertices) |-> Line(<<>>, AxisRemap(m.vertices[k].co, scale))]
    \o << Line(<<"# Normals">>, <<>>),
          Line(<<"# Smooth normals begin here">>, <<>>) >>
    \o [k \in 1..Len(m.vertices) |-> Line(<<>>, AxisRemap(m.vertices[k].normal, 1))]
    \o << Line(<<"# Flat normals begin here">>, <<>>) >>
    \o [k \in 1..Len(m.loop_triangles) |->
           Line(<<>>, AxisRemap(m.loop_triangles[k].normal, 1))]
    \o << Line(<<"# Polygon">>, <<>>) >>
    \o PolygonBlock(m)

\* -------------------------------------------------------- Shading (MAT)
color_mul == 255

\* int(channel * color_mul), the channel being given in thousandths.
Int255(c) == (c * color_mul) \div 1000

Triplet(color) == <<Int255(color[1]), Int255(color[2]), Int255(color[3])>>

\* (mutation: polygons are marked as textured)
pol_textured_on == TRUE

\* No polygon is ever marked as textured.
pol_textured == FALSE

\* (col[0] == col[1]) and (col[1] == col[2]) and (col[2] == col[0]), with
\* Python's left-to-right short-circuit; an index past the end of col raises.
UniformCheck(col) ==
    IF Len(col) < 2 THEN "raise"
    ELSE IF col[1] # col[2] THEN "gouraud"
    ELSE IF Len(col) < 3 THEN "raise"
    ELSE IF col[2] = col[3] /\ col[3] = col[1] THEN "flat"
    ELSE "gouraud"

index_tab(p) == IF Len(p.vertices) = 4 THEN <<3, 2, 0, 1>> ELSE <<0, 2, 1>>

\* How many colours the gouraud loop writes before col[index_tab[j]] raises
\* (j runs over the positions of p.vertices).
RECURSIVE GouraudWritten(_, _, _)
GouraudWritten(p, col, j) ==
    IF j >= Len(p.vertices) THEN j
    ELSE IF j >= Len(index_tab(p)) THEN j
    ELSE IF index_tab(p)[j + 1] >= Len(col) THEN j
    ELSE GouraudWritten(p, col, j + 1)

RECURSIVE GouraudColors(_, _, _)
GouraudColors(p, col, n) ==
    IF n = 0 THEN <<>>
    ELSE GouraudColors(p, col, n - 1) \o Triplet(col[index_tab(p)[n] + 1])

\* The line of the face at position i: what has been written of it, and
\* whether an exception ended it before its "\n".
MATFaceLine(m, i, p, coloredTexPolys) ==
    LET tone == IF p.use_smooth THEN "G" ELSE "F"
        hasCols == m.vertex_colors
        check == IF hasCols THEN UniformCheck(p.colors) ELSE "flat"
        pol_gouraud == check = "gouraud"
        texTag == IF coloredTexPolys
                  THEN (IF pol_gouraud THEN "H" ELSE "D")
                  ELSE "T"
        colTag == IF pol_gouraud THEN "G" ELSE "C"
        written == GouraudWritten(p, p.colors, 0)
    IN
    IF check = "raise"
    THEN [line |-> Line(<<tone>>, <<i, 0>>), raised |-> TRUE]
    ELSE IF pol_textured
    THEN \* tex_table and mesh_uvs are never assigned: NameError
         [line |-> Line(<<tone, texTag>>, <<i, 0>>), raised |-> TRUE]
    ELSE IF ~hasCols
    THEN [line |-> Line(<<tone, colTag>>, <<i, 0, color_mul, color_mul, color_mul>>),
          raised |-> FALSE]
    ELSE IF pol_gouraud
    THEN IF written < Len(p.vertices)
         THEN [line |-> Line(<<tone, colTag>>,
                             <<i, 0>> \o GouraudColors(p, p.colors, written)),
               raised |-> TRUE]
         ELSE [line |-> Line(<<tone, colTag>>,
                             <<i, 0>> \o GouraudColors(p, p.colors, written)
                             \o (IF Len(p.vertices) = 3 THEN <<0, 0, 0>> ELSE <<>>)),
               raised |-> FALSE]
    ELSE [line |-> Line(<<tone, colTag>>, <<i, 0>> \o Triplet(p.colors[1])),
          raised |-> FALSE]

\* What the "with open(mat_filepath)" block writes, up to and including the
\* line an exception is raised in.
MATOutput(m, coloredTexPolys) ==
    LET F == Len(m.loop_triangles)
        fl(k) == MATFaceLine(m, k - 1, m.loop_triangles[k], coloredTexPolys)
        bad == {k \in 1..F : fl(k).raised}
        last == IF bad = {} THEN F ELSE CHOOSE k \in bad : \A j \in bad : k <= j
    IN [lines |-> << Line(<<"@MAT940801">>, <<>>), Line(<<>>, <<F>>) >>
                  \o [k \in 1..last |-> fl(k).line],
        raised |-> bad # {}]

\* ---------------------------------------------------- Descriptor (RSD)
RSDLines(plyPath, matPath) ==
    << Line(<<"@RSD940102">>, <<>>),
       Line(<<"PLY=">> \o basename(plyPath), <<>>),
       Line(<<"MAT=">> \o basename(matPath), <<>>),
       Line(<<"NTEX=0">>, <<>>) >>

\* ------------------------------------------------------------------ state
VARIABLES
    filepath,             \* self.filepath
    exp_coloredTexPolys,  \* self.exp_coloredTexPolys
    exp_scaleFactor,      \* self.exp_scaleFactor
    mesh,                 \* the mesh handed over by the host
    pc,                   \* position in execute
    files,                \* the three output files on the filesystem
    failed                \* the file an exception was raised at, or "none"

vars == <<filepath, exp_coloredTexPolys, exp_scaleFactor, mesh, pc, files, failed>>

\* An export named "model": the path the file dialog hands over (with the
\* extension), and the bare name a scripted call may pass.
FilePaths ==
    { <<"/", "t", "/", "m", "o", "d", "e", "l", ".", "r", "s", "d">>,
      <<"m", "o", "d", "e", "l">> }

ScaleFactors == {1}

NoFile == [path |-> <<>>, state |-> "absent", content |-> <<>>, complete |-> FALSE]

Init ==
    /\ filepath \in FilePaths
    /\ exp_coloredTexPolys \in BOOLEAN
    /\ exp_scaleFactor \in ScaleFactors
    /\ mesh \in Meshes
    /\ pc = "ply_open"
    /\ files = [r \in Roles |-> NoFile]
    /\ failed = "none"

inputs == <<filepath, exp_coloredTexPolys, exp_scaleFactor, mesh>>

\* open(path, "w"): the file exists, empty, with an open handle.
OpenFile(r, path, next) ==
    /\ files' = [files EXCEPT ![r] =
                    [path |-> path, state |-> "open", content |-> <<>>, complete |-> FALSE]]
    /\ pc' = next
    /\ UNCHANGED <<inputs, failed>>

\* The block's writes all succeed.
WriteFile(r, lines, next) ==
    /\ files' = [files EXCEPT ![r].content = lines, ![r].complete = TRUE]
    /\ pc' = next
    /\ UNCHANGED <<inputs, failed>>

\* (mutation: a handle opened without the with statement stays open)
RaiseInFile_leak(r, lines) ==
    /\ files' = [files EXCEPT ![r].content = lines]
    /\ failed' = r
    /\ pc' = "aborted"
    /\ UNCHANGED inputs

\* An exception leaves the block: the with statement closes the handle and
\* the exception leaves execute.
RaiseInFile(r, lines) ==
    /\ files' = [files EXCEPT ![r].content = lines, ![r].state = "closed"]
    /\ failed' = r
    /\ pc' = "aborted"
    /\ UNCHANGED inputs

\* End of a with block.
CloseFile(r, next) ==
    /\ files' = [files EXCEPT ![r].state = "closed"]
    /\ pc' = next
    /\ UNCHANGED <<inputs, failed>>

OpenPLY ==
    /\ pc = "ply_open"
    /\ OpenFile("ply", ply_filepath(filepath), "ply_write")

WritePLY ==
    /\ pc = "ply_write"
    /\ WriteFile("ply", PLYLines(mesh, exp_scaleFactor), "ply_close")

\* (mutation: the descriptor block is placed before the shading block)
ClosePLY_thenRSD ==
    /\ pc = "ply_close"
    /\ CloseFile("ply", "rsd_open")

ClosePLY ==
    /\ pc = "ply_close"
    /\ CloseFile("ply", "mat_open")

OpenMAT ==
    /\ pc = "mat_open"
    /\ OpenFile("mat", mat_filepath(filepath), "mat_write")

WriteMAT ==
    /\ pc = "mat_write"
    /\ LET out == MATOutput(mesh, exp_coloredTexPolys) IN
       IF out.raised
       THEN RaiseInFile("mat", out.lines)
       ELSE WriteFile("mat", out.lines, "mat_close")

CloseMAT ==
    /\ pc = "mat_close"
    /\ CloseFile("mat", "rsd_open")

OpenRSD ==
    /\ pc = "rsd_open"
    /\ OpenFile("rsd", rsd_filepath(filepath), "rsd_write")

\* The four writes and the explicit f.close() inside the block.
WriteRSD ==
    /\ pc = "rsd_write"
    /\ files' = [files EXCEPT !["rsd"].content =
                                  RSDLines(ply_filepath(filepath), mat_filepath(filepath)),
                              !["rsd"].complete = TRUE,
                              !["rsd"].state = "closed"]
    /\ pc' = "rsd_close"
    /\ UNCHANGED <<inputs, failed>>

CloseRSD ==
    /\ pc = "rsd_close"
    /\ CloseFile("rsd", "done")

\* open() raises OSError: nothing is created, the exception leaves execute.
OpenError ==
    /\ \E r \in Roles : pc = r \o "_open" /\ failed' = r
    /\ pc' = "aborted"
    /\ UNCHANGED <<inputs, files>>

\* A write raises OSError after the file's first line.
WriteError ==
    \E r \in Roles :
        /\ pc = r \o "_write"
        /\ RaiseInFile(r,
              CASE r = "ply" -> SubSeq(PLYLines(mesh, exp_scaleFactor), 1, 1)
                [] r = "mat" -> SubSeq(MATOutput(mesh, exp_coloredTexPolys).lines, 1, 1)
                [] OTHER -> SubSeq(RSDLines(ply_filepath(filepath), mat_filepath(filepath)), 1, 1))

Next ==
    \/ OpenPLY \/ WritePLY \/ ClosePLY
    \/ OpenMAT \/ WriteMAT \/ CloseMAT
    \/ OpenRSD \/ WriteRSD \/ CloseRSD
    \/ OpenError \/ WriteError

Spec == Init /\ [][Next]_vars

\* ------------------------------------------------- reading the files
PLY == files["ply"].content
MAT == files["mat"].content
RSD == files["rsd"].content

V == Len(mesh.vertices)
F == Len(mesh.loop_triangles)

IndexOf(lines, word) == CHOOSE k \in 1..Len(lines) : lines[k].txt = <<word>>

VertexBlock == SubSeq(PLY, IndexOf(PLY, "# Vertices") + 1, IndexOf(PLY, "# Normals") - 1)
SmoothBlock ==
    SubSeq(PLY, IndexOf(PLY, "# Smooth normals begin here") + 1,
           IndexOf(PLY, "# Flat normals begin here") - 1)
FlatBlock ==
    SubSeq(PLY, IndexOf(PLY, "# Flat normals begin here") + 1, IndexOf(PLY, "# Polygon") - 1)
FaceBlock == SubSeq(PLY, IndexOf(PLY, "# Polygon") + 1, Len(PLY))

\* The normal table a reader of the file indexes: smooth, then flat.
NormalTable == SmoothBlock \o FlatBlock

WellFormed(p) == Len(p.vertices) \in {3, 4}
Malformed == {k \in 1..F : ~WellFormed(mesh.loop_triangles[k])}

Order(r) == CASE r = "ply" -> 1 [] r = "mat" -> 2 [] OTHER -> 3

Written(r) == files[r].state = "closed" /\ files[r].complete

\* C1: the files are written in the order PLY, MAT, RSD: the shading file is
\* not opened before the geometry file is completely written and closed, and
\* the descriptor file is not opened before both the geometry file and the
\* shading file are completely written and closed.
C1_DescriptorLast ==
    /\ files["mat"].state # "absent" => Written("ply")
    /\ files["rsd"].state # "absent" => Written("ply") /\ Written("mat")

C1_Witness == pc = "rsd_write" /\ files["rsd"].state = "open" /\ F = MaxFaces

\* C2: at most one handle is open at any time, none is open once execute has
\* returned or raised, and when an exception is raised at one file the export
\* stops there: the files before it are complete and closed, the failing file
\* is the only incomplete one and no later file has been created.
C2_ScopedHandles ==
    /\ Cardinality({r \in Roles : files[r].state = "open"}) <= 1
    /\ pc \in {"done", "aborted"} => \A r \in Roles : files[r].state # "open"
    /\ failed # "none" =>
          /\ pc = "aborted"
          /\ ~files[failed].complete
          /\ \A r \in Roles :
                /\ Order(r) < Order(failed) => Written(r)
                /\ Order(r) > Order(failed) => files[r] = NoFile

\* An IndexError in the middle of the shading file: the truncated file ends
\* in an unfinished line.
C2_Witness ==
    /\ failed = "mat"
    /\ files["mat"].state = "closed"
    /\ Len(MAT) > 2
    /\ Written("ply")

\* C3: the count line of the geometry file is V, V+F, F, followed by V vertex
\* lines, V smooth normals in vertex order, F flat normals in face order and F
\* face lines in face order.
C3_CountsMatchBlocks ==
    files["ply"].complete =>
        /\ PLY[2].num = <<V, V + F, F>>
        /\ Len(VertexBlock) = V
        /\ \A k \in 1..V :
              VertexBlock[k].num = AxisRemap(mesh.vertices[k].co, exp_scaleFactor)
        /\ Len(NormalTable) = V + F
        /\ Len(SmoothBlock) = V
        /\ \A k \in 1..V : SmoothBlock[k].num = AxisRemap(mesh.vertices[k].normal, 1)
        /\ Len(FlatBlock) = F
        /\ \A k \in 1..F : FlatBlock[k].num = AxisRemap(mesh.loop_triangles[k].normal, 1)
        /\ Len(FaceBlock) = F
        /\ \A k \in 1..F :
              WellFormed(mesh.loop_triangles[k]) =>
                  /\ Len(FaceBlock[k].num) = 9
                  /\ {FaceBlock[k].num[j] : j \in 2..(1 + Len(mesh.loop_triangles[k].vertices))}
                        = Range(mesh.loop_triangles[k].vertices)

C3_Witness == files["ply"].complete /\ F = MaxFaces /\ V = MaxVerts /\ Malformed = {}

\* C4: a triangle [a,b,c] is written with prefix 0 and vertex indices a c b
\* followed by the pad 0; a quad [a,b,c,d] with prefix 1 and vertex indices
\* d c a b, all four of them vertex indices of the face.
C4_VertexIndexGroup ==
    files["ply"].complete =>
        \A k \in 1..F :
            LET v == mesh.loop_triangles[k].vertices
                g == SubSeq(FaceBlock[k].num, 1, 5)
            IN /\ Len(v) = 3 => g = <<0, v[1], v[3], v[2], 0>>
               /\ Len(v) = 4 =>
                     /\ g = <<1, v[4], v[3], v[1], v[2]>>
                     /\ \A j \in 2..5 : g[j] \in Range(v)

C4_Witness ==
    /\ files["ply"].complete
    /\ \E k \in 1..F : Len(mesh.loop_triangles[k].vertices) = 3
    /\ \E k \in 1..F : Len(mesh.loop_triangles[k].vertices) = 4

\* C5: the normal-index group of a smooth face equals its vertex-index group,
\* the pad 0 of a triangle included; every real entry of the normal-index
\* group of a flat face at position i is len(vertices) + i, a triangle
\* having three of them and the pad 0, a quad four.
C5_NormalIndexGroup ==
    files["ply"].complete =>
        \A k \in 1..F :
            LET p == mesh.loop_triangles[k]
                num == FaceBlock[k].num
                n == V + (k - 1)
            IN WellFormed(p) =>
                  /\ p.use_smooth => SubSeq(num, 6, 9) = SubSeq(num, 2, 5)
                  /\ ~p.use_smooth /\ Len(p.vertices) = 3 => SubSeq(num, 6, 9) = <<n, n, n, 0>>
                  /\ ~p.use_smooth /\ Len(p.vertices) = 4 => SubSeq(num, 6, 9) = <<n, n, n, n>>

C5_Witness ==
    /\ files["ply"].complete
    /\ F >= 2
    /\ WellFormed(mesh.loop_triangles[1]) /\ mesh.loop_triangles[1].use_smooth
    /\ WellFormed(mesh.loop_triangles[2]) /\ ~mesh.loop_triangles[2].use_smooth

AllEqual(col) == \A a, b \in 1..Len(col) : col[a] = col[b]

RECURSIVE Reordered(_, _, _)
Reordered(col, tab, n) ==
    IF n = 0 THEN <<>> ELSE Reordered(col, tab, n - 1) \o Triplet(col[tab[n] + 1])

\* C6: in a mesh with a colour channel, a triangle or quad whose per-loop
\* colours are all equal gets the tag C and one RGB triplet, and one whose
\* per-loop colours are not all equal gets the tag G and one RGB triplet per
\* vertex in the order [0,2,1] (triangle) or [3,2,0,1] (quad).
C6_ColorUniformity ==
    files["mat"].complete /\ mesh.vertex_colors =>
        \A k \in 1..F :
            LET p == mesh.loop_triangles[k]
                n == Len(p.vertices)
                line == MAT[2 + k]
                tab == IF n = 4 THEN <<3, 2, 0, 1>> ELSE <<0, 2, 1>>
            IN WellFormed(p) =>
                  IF AllEqual(p.colors)
                  THEN /\ line.txt[2] = "C"
                       /\ SubSeq(line.num, 3, 5) = Triplet(p.colors[1])
                       /\ Len(line.num) \in {5, 8}
                  ELSE /\ line.txt[2] = "G"
                       /\ SubSeq(line.num, 3, 2 + 3 * n) = Reordered(p.colors, tab, n)

C8_DescriptorContent ==
    files["rsd"].complete =>
        /\ RSD = << Line(<<"@RSD940102">>, <<>>),
                    Line(<<"PLY=", "m", "o", "d", "e", "l", ".", "p", "l", "y">>, <<>>),
                    Line(<<"MAT=", "m", "o", "d", "e", "l", ".", "m", "a", "t">>, <<>>),
                    Line(<<"NTEX=0">>, <<>>) >>
        /\ Tail(RSD[2].txt) = basename(files["ply"].path)
        /\ Tail(RSD[3].txt) = basename(files["mat"].path)
        /\ Written("ply") /\ Written("mat")

C8_Witness ==
    /\ pc = "done"
    /\ files["rsd"].complete
    /\ F = MaxFaces
    /\ mesh.vertex_colors
    /\ Len(filepath) > 5

\* C9 as stated: a face with a vertex count outside {3,4} raises no error, is
\* counted in the count line and has no line in the face block, so the face
\* count of the count line exceeds the number of lines of the face block.
C9_NoLineWritten ==
    files["ply"].complete /\ Malformed # {} =>
        /\ PLY[2].num = <<V, V + F, F>>
        /\ Len(FaceBlock) = F - Cardinality(Malformed)
        /\ Len(FaceBlock) < PLY[2].num[3]

\* C9 amended: a face with a vertex count outside {3,4} raises no error in the
\* geometry block and is counted in the count line; no prefix, vertex index or
\* normal index is written for it, but the newline that ends its record is:
\* its position in the face block holds an empty line.  The face block has as
\* many lines as the count line says, and fewer non-empty face records.
C9_EmptyLineWritten ==
    /\ pc = "ply_write" => ENABLED WritePLY
    /\ files["ply"].complete =>
          /\ PLY[2].num = <<V, V + F, F>>
          /\ Len(FaceBlock) = PLY[2].num[3]
          /\ \A k \in 1..F :
                (k \in Malformed) <=> (FaceBlock[k] = Line(<<>>, <<>>))
          /\ Cardinality({k \in 1..F : FaceBlock[k].num # <<>>}) = F - Cardinality(Malformed)
          /\ Malformed # {} =>
                Cardinality({k \in 1..F : FaceBlock[k].num # <<>>}) < PLY[2].num[3]

C9_Witness ==
    /\ files["ply"].complete
    /\ F >= 2
    /\ 1 \in Malformed
    /\ 2 \notin Malformed

\* C10: in a mesh whose faces all have 3 or 4 vertices, every real normal
\* index of the face block addresses an entry of the normal table written
\* before it: a smooth face has indices in [0, V), a flat face the index of
\* its own flat normal, in [V, V+F); all are below the middle figure of the
\* count line.
C10_NormalIndicesInRange ==
    files["ply"].complete /\ Malformed = {} =>
        \A k \in 1..F :
            LET p == mesh.loop_triangles[k]
                real == SubSeq(FaceBlock[k].num, 6, 5 + Len(p.vertices))
            IN \A j \in 1..Len(real) :
                  /\ real[j] >= 0
                  /\ real[j] < PLY[2].num[2]
                  /\ real[j] < Len(NormalTable)
                  /\ p.use_smooth => real[j] < V
                  /\ ~p.use_smooth =>
                        /\ real[j] >= V
                        /\ real[j] < V + F
                        /\ NormalTable[real[j] + 1].num = AxisRemap(p.normal, 1)

C10_Witness ==
    /\ files["ply"].complete
    /\ Malformed = {}
    /\ F = MaxFaces
    /\ ~mesh.loop_triangles[F].use_smooth
    /\ mesh.loop_triangles[1].use_smooth

====
